---- MODULE Spec2Model ----
(***************************************************************************)
(* A model of src/extraction.py: the trade extraction pipeline             *)
(*   get_api_trades -> generate_dataframe -> dataframe_to_csv ->           *)
(*   upload_csv_to_s3, driven by main.                                     *)
(*                                                                         *)
(* Strings that the code builds by concatenation (the URL, the file name,  *)
(* local paths, object keys) are sequences of tokens; a separator is a     *)
(* token of its own, so splitting and joining are computed as the code     *)
(* computes them.  JSON values are records with a type tag.  Every error   *)
(* the code raises is a record [cls, msg, cause]: cls is the Python class  *)
(* that reaches the caller, msg the message prefix of the raise statement. *)
(***************************************************************************)
EXTENDS Integers, Sequences, FiniteSets, TLC

\* ------------------------------------------------------------------ bounds

\* Longest trade list the table builder is checked on.
MaxLen == 2
\* Calendar dates the clock can reach.
MaxDate == 2
\* Runs of main one process makes.
MaxRuns == 2

\* ------------------------------------------------------- driver constants

API_URL == "https://api.mercadobitcoin.net/api/v4"
SYMBOL == "BTC-BRL"
CSV_PATH == <<"C:", "\\", "data", "\\", "github", "\\", "mercadobitcoin_api">>
BUCKET_NAME == "mercadobitcoin-api"
S3_FOLDER == "trades"
AWS_REGION == "us-east-1"

\* ------------------------------------------------------------- JSON values

Keys == {"price", "qty"}
Vals == {"100", "101"}
NaN == "NaN"

Range(s) == {s[i] : i \in 1..Len(s)}
SeqsUpTo(S, n) == UNION {[1..k -> S] : k \in 0..n}
IsInjective(s) == \A i, j \in 1..Len(s) : s[i] = s[j] => i = j

\* A JSON object as Python decodes it: a dict, which keeps insertion order.
Pair(k, v) == [k |-> k, v |-> v]
KeySeqs == {ks \in SeqsUpTo(Keys, Cardinality(Keys)) : IsInjective(ks)}
Dicts ==
    UNION {{[i \in 1..Len(ks) |-> Pair(ks[i], vs[i])] : vs \in [1..Len(ks) -> Vals]}
           : ks \in KeySeqs}
DictElem(pairs) == [t |-> "dict", pairs |-> pairs]
ScalarElem(t) == [t |-> t, pairs |-> <<>>]
Elems == {DictElem(d) : d \in Dicts} \cup {ScalarElem("str"), ScalarElem("num")}

ListValue(items) == [t |-> "list", items |-> items]
NonListValue(t) == [t |-> t, items |-> <<>>]
NoValue == NonListValue("None")
NonLists == {NonListValue("dict"), NonListValue("str"), NonListValue("null")}
\* Every decoded JSON body with at most MaxLen elements.
JsonValues == {ListValue(items) : items \in SeqsUpTo(Elems, MaxLen)} \cup NonLists

\* ------------------------------------------------------------------ errors

Err(cls, msg, cause) == [cls |-> cls, msg |-> msg, cause |-> cause]
NoError == Err("", "", "")

\* -------------------------------------------------------- generate_dataframe

Table(columns, rows) == [valid |-> TRUE, columns |-> columns, rows |-> rows]
NoTable == [valid |-> FALSE, columns |-> <<>>, rows |-> <<>>]

DictKeys(pairs) == [i \in 1..Len(pairs) |-> pairs[i].k]
DictGet(pairs, k) ==
    IF \E i \in 1..Len(pairs) : pairs[i].k = k
    THEN (CHOOSE p \in Range(pairs) : p.k = k).v
    ELSE NaN

\* Appends the keys of ks not yet in cols, in the order of ks.
RECURSIVE AppendUnseen(_, _)
AppendUnseen(cols, ks) ==
    IF ks = <<>> THEN cols
    ELSE AppendUnseen(IF Head(ks) \in Range(cols) THEN cols ELSE Append(cols, Head(ks)),
                      Tail(ks))

\* pd.DataFrame(list of dicts): the columns are the keys of the records in the
\* order they are first met, record after record.
RECURSIVE ColumnsOf(_, _)
ColumnsOf(items, cols) ==
    IF items = <<>> THEN cols
    ELSE ColumnsOf(Tail(items), AppendUnseen(cols, DictKeys(Head(items).pairs)))

RowOf(pairs, cols) == [c \in 1..Len(cols) |-> DictGet(pairs, cols[c])]

\* A builder that takes its columns from the first record alone.
DataFrameFirstRecordColumns(items) ==
    LET cols == IF items = <<>> THEN <<>> ELSE DictKeys(items[1].pairs)
    IN  Table(cols, [i \in 1..Len(items) |-> RowOf(items[i].pairs, cols)])

DataFrame(items) ==
    LET cols == ColumnsOf(items, <<>>)
    IN  Table(cols, [i \in 1..Len(items) |-> RowOf(items[i].pairs, cols)])

BuildResult(table, error) == [table |-> table, error |-> error]

\* A builder that looks at the type of the first element only.
generate_dataframe_first_only(trades) ==
    IF trades.t # "list"
    THEN BuildResult(NoTable, Err("ValueError", "The 'trades' parameter must be a list.", ""))
    ELSE IF trades.items # <<>> /\ trades.items[1].t # "dict"
    THEN BuildResult(NoTable,
                     Err("ValueError", "All elements of the 'trades' list must be dictionaries.", ""))
    ELSE BuildResult(DataFrame(trades.items), NoError)

generate_dataframe(trades) ==
    IF trades.t # "list"
    THEN BuildResult(NoTable, Err("ValueError", "The 'trades' parameter must be a list.", ""))
    ELSE IF \E i \in 1..Len(trades.items) : trades.items[i].t # "dict"
    THEN BuildResult(NoTable,
                     Err("ValueError", "All elements of the 'trades' list must be dictionaries.", ""))
    ELSE BuildResult(DataFrame(trades.items), NoError)

\* ---------------------------------------------------------- get_api_trades

\* f"{api_url}/{symbol}/trades"
TradesUrl(api_url, symbol) == <<api_url, "/", symbol, "/", "trades">>

\* What the exchange answers to one GET: a decoded body, or a failure: an error
\* status (raise_for_status), a network failure, or a body that is not JSON
\* (response.json()); requests raises a RequestException for each of them.
HttpFailures == {"HTTPError", "ConnectionError"}
RequestFailures == HttpFailures \cup {"JSONDecodeError"}
Response(outcome, body) == [outcome |-> outcome, body |-> body]

FetchResult(requests, value, error) ==
    [requests |-> requests, value |-> value, error |-> error]

\* A fetcher that asks once more when the first request fails.
get_api_trades_retry(api_url, symbol, response) ==
    IF response.outcome = "ok"
    THEN FetchResult(<<TradesUrl(api_url, symbol)>>, response.body, NoError)
    ELSE FetchResult(<<TradesUrl(api_url, symbol), TradesUrl(api_url, symbol)>>, NoValue,
                     Err("ValueError", "Error during API request", response.outcome))

get_api_trades(api_url, symbol, response) ==
    IF response.outcome = "ok"
    THEN FetchResult(<<TradesUrl(api_url, symbol)>>, response.body, NoError)
    ELSE FetchResult(<<TradesUrl(api_url, symbol)>>, NoValue,
                     Err("ValueError", "Error during API request", response.outcome))

\* -------------------------------------------------------- dataframe_to_csv

Platforms == {"posix", "nt"}
Seps == {"/", "\\"}
DateStr(d) == <<"2026-11-06", "2026-11-07", "2026-11-08", "2026-11-09">>[d]

\* f"api_trades_{today}.csv"
Filename(today) == <<"api_trades_", DateStr(today), ".csv">>

\* os.path.join(csv_path, filename) for a relative filename: posixpath adds "/"
\* unless the directory ends with one, ntpath adds "\" unless it ends with
\* either separator.
PathJoin(platform, dir, name) ==
    IF dir = <<>> THEN name
    ELSE IF platform = "posix"
    THEN (IF dir[Len(dir)] = "/" THEN dir \o name ELSE dir \o <<"/">> \o name)
    ELSE (IF dir[Len(dir)] \in Seps THEN dir \o name ELSE dir \o <<"\\">> \o name)

\* df.to_csv(file_path, index=False): a header line, then one line per row;
\* a missing cell is written as the empty string.
CsvCell(v) == IF v = NaN THEN "" ELSE v
ToCsv(df) ==
    <<df.columns>> \o [i \in 1..Len(df.rows) |->
                          [c \in 1..Len(df.columns) |-> CsvCell(df.rows[i][c])]]
\* A file opened for writing and not written: no line at all.
Truncated == <<>>

IoOutcomes == {"ok", "open_fails", "write_fails"}
PersistResult(path, error, attempted, write, content) ==
    [path |-> path, error |-> error, attempted |-> attempted,
     write |-> write, content |-> content]

\* A persister that checks os.path.exists in place of os.path.isdir: given a
\* file for a directory it goes on to the write, which cannot open its path.
dataframe_to_csv_exists(df, csv_path, dir_kind, today, platform, io) ==
    IF ~df.valid
    THEN PersistResult(<<>>, Err("ValueError", "The 'df' parameter must be a Pandas DataFrame.", ""),
                       <<>>, "none", Truncated)
    ELSE IF dir_kind = "missing"
    THEN PersistResult(<<>>, Err("ValueError", "is not a valid directory", ""),
                       <<>>, "none", Truncated)
    ELSE LET file_path == PathJoin(platform, csv_path, Filename(today))
         IN  IF io = "ok" /\ dir_kind = "dir"
             THEN PersistResult(file_path, NoError, file_path, "write", ToCsv(df))
             ELSE IF io = "write_fails" /\ dir_kind = "dir"
             THEN PersistResult(<<>>, Err("ValueError", "Error while saving the data", "OSError"),
                                file_path, "write", Truncated)
             ELSE PersistResult(<<>>, Err("ValueError", "Error while saving the data", "OSError"),
                                file_path, "none", Truncated)

\* write: the file at `attempted` is left alone ("none") or holds `content`.
dataframe_to_csv(df, csv_path, dir_kind, today, platform, io) ==
    IF ~df.valid
    THEN PersistResult(<<>>, Err("ValueError", "The 'df' parameter must be a Pandas DataFrame.", ""),
                       <<>>, "none", Truncated)
    ELSE IF dir_kind # "dir"
    THEN PersistResult(<<>>, Err("ValueError", "is not a valid directory", ""),
                       <<>>, "none", Truncated)
    ELSE LET file_path == PathJoin(platform, csv_path, Filename(today))
         IN  IF io = "ok"
             THEN PersistResult(file_path, NoError, file_path, "write", ToCsv(df))
             ELSE IF io = "open_fails"
             THEN PersistResult(<<>>, Err("ValueError", "Error while saving the data", "OSError"),
                                file_path, "none", Truncated)
             ELSE PersistResult(<<>>, Err("ValueError", "Error while saving the data", "OSError"),
                                file_path, "write", Truncated)

\* -------------------------------------------------------- upload_csv_to_s3

RECURSIVE LastIndexOf(_, _)
LastIndexOf(s, tokens) ==
    IF s = <<>> THEN 0
    ELSE IF s[Len(s)] \in tokens THEN Len(s)
    ELSE LastIndexOf(SubSeq(s, 1, Len(s) - 1), tokens)

\* file_path.split('\\')[-1]
SplitLast(file_path) == SubSeq(file_path, LastIndexOf(file_path, {"\\"}) + 1, Len(file_path))

\* f"{s3_folder}/{csv_file_name}"
ObjectKey(s3_folder, file_path) == <<s3_folder, "/">> \o SplitLast(file_path)

NoCred == "None"
Creds == {"set", NoCred}
NetOutcomes == {"ok", "ClientError", "EndpointConnectionError"}
UploadResult(error, called, put, key, body) ==
    [error |-> error, called |-> called, put |-> put, key |-> key, body |-> body]

\* An upload that sends an empty body whatever the file holds.
UploadBodyEmpty(files, file_path) == Truncated

\* upload_file(Filename = file_path, ...) sends what the local file holds when
\* the call is made.
UploadBody(files, file_path) == files[file_path]

\* An upload that cleans up: the local file is removed.
LocalRemovedAfterUpload(files, file_path) ==
    [f \in DOMAIN files \ {file_path} |-> files[f]]

\* The local files once upload_csv_to_s3 is over: it removes and rewrites none.
LocalAfterUpload(files, file_path) == files

\* boto3.client raises when exactly one of the two credentials is given; the
\* call is outside the try block.  With neither given the client looks for
\* credentials elsewhere, and upload_file, inside the try block, fails or not.
upload_csv_to_s3(file_path, s3_folder, key_id, secret, files, net) ==
    IF (key_id = NoCred) # (secret = NoCred)
    THEN UploadResult(Err("PartialCredentialsError", "Partial credentials found", ""),
                      FALSE, FALSE, <<>>, Truncated)
    ELSE LET object == ObjectKey(s3_folder, file_path)
         IN  IF file_path \notin DOMAIN files
             THEN UploadResult(Err("ValueError", "An error occurred while uploading the file",
                                   "FileNotFoundError"), TRUE, FALSE, object, Truncated)
             ELSE IF net # "ok"
             THEN UploadResult(Err("ValueError", "An error occurred while uploading the file", net),
                               TRUE, FALSE, object, UploadBody(files, file_path))
             ELSE UploadResult(NoError, TRUE, TRUE, object, UploadBody(files, file_path))

\* A write in append mode: the lines are added to what the file holds.
AppendFile(files, file_path, content) ==
    [f \in DOMAIN files \cup {file_path} |->
        IF f # file_path THEN files[f]
        ELSE IF file_path \in DOMAIN files THEN files[f] \o content ELSE content]

\* to_csv opens the file for writing: what it held before is gone.
WriteFile(files, file_path, content) ==
    [f \in DOMAIN files \cup {file_path} |-> IF f = file_path THEN content ELSE files[f]]

\* upload_file replaces the object at the key.
PutObject(objects, key, body) ==
    [k \in DOMAIN objects \cup {key} |-> IF k = key THEN body ELSE objects[k]]

\* ------------------------------------------------------------------- main

Procs == {"p1", "p2"}
Main == "p1"
Order == <<"get_api_trades", "generate_dataframe", "dataframe_to_csv", "upload_csv_to_s3">>

\* A driver that catches the exception and goes on with the next call.
AfterStepSwallow(next, error) == next

\* main calls the four functions one after the other and catches nothing: an
\* exception raised by one ends the run.
AfterStep(next, error) == IF error = NoError THEN next ELSE "failed"

Call(step, error) == [step |-> step, ok |-> error = NoError]

\* Directories the persister is given, main's CSV_PATH among them.
CsvDirs == {CSV_PATH, <<"/", "data">>, <<"/", "data", "/">>}
DirKinds == {"dir", "file", "missing"}

\* Bodies the exchange returns in the pipeline runs.
TwoTrades ==
    ListValue(<<DictElem(<<Pair("price", "100"), Pair("qty", "1")>>),
                DictElem(<<Pair("price", "101"), Pair("qty", "2")>>)>>)
OneTrade == ListValue(<<DictElem(<<Pair("qty", "3")>>)>>)
NoTrades == ListValue(<<>>)
Bodies == {TwoTrades, OneTrade, NoTrades, NonListValue("dict")}
Responses ==
    {Response("ok", b) : b \in Bodies} \cup {Response(f, NoValue) : f \in RequestFailures}
NoResponse == Response("", NoValue)

Env(key_id, secret) == [key_id |-> key_id, secret |-> secret]
NoEnv == Env(NoCred, NoCred)

VARIABLES
    platform,       \* the operating system's path convention
    csv_path,       \* the directory given to dataframe_to_csv
    dir_kind,       \* what os.path.isdir finds at csv_path
    today,          \* the calendar date, datetime.today()
    fs,             \* local files: path -> lines
    remote,         \* objects of the bucket: key -> lines
    pc,             \* per process: the step main is about to call
    runs,           \* per process: runs of main started
    env,            \* per process: the two credentials of os.getenv
    api_trades, trades_df, csv_file_path,   \* main's locals
    error,          \* per process: the exception that ended the run
    calls,          \* history, per run: the functions called and how each ended
    response,       \* history, per run: what the exchange answered
    requests,       \* history, per run: the GETs issued
    writes,         \* history, per run: the paths a write was attempted on
    uploads,        \* history, per run: the upload_file calls
    persisted       \* history: [dir, date, path] of every path returned

world == <<platform, csv_path, dir_kind, today, fs, remote>>
locals == <<pc, runs, env, api_trades, trades_df, csv_file_path, error>>
history == <<calls, response, requests, writes, uploads, persisted>>
vars == <<world, locals, history>>

ForAll(v) == [p \in Procs |-> v]

InitRun ==
    /\ env = ForAll(NoEnv)
    /\ api_trades = ForAll(NoValue)
    /\ trades_df = ForAll(NoTable)
    /\ csv_file_path = ForAll(<<>>)
    /\ error = ForAll(NoError)
    /\ response = ForAll(NoResponse)
    /\ requests = ForAll(<<>>)
    /\ writes = ForAll(<<>>)
    /\ uploads = ForAll(<<>>)

Init ==
    /\ platform \in Platforms
    /\ csv_path \in CsvDirs
    /\ dir_kind \in DirKinds
    /\ today = 1
    /\ fs = <<>>
    /\ remote = <<>>
    /\ pc = ForAll("idle")
    /\ runs = ForAll(0)
    /\ calls = ForAll(<<>>)
    /\ persisted = {}
    /\ InitRun

\* The clock passes midnight.
Tick ==
    /\ today < MaxDate
    /\ today' = today + 1
    /\ UNCHANGED <<platform, csv_path, dir_kind, fs, remote, locals, history>>

\* main, lines 113-122: a run starts and reads the credentials.
Start(p) ==
    /\ pc[p] \in {"idle", "done", "failed"}
    /\ runs[p] < MaxRuns
    /\ \E key_id \in Creds, secret \in Creds :
          env' = [env EXCEPT ![p] = Env(key_id, secret)]
    /\ pc' = [pc EXCEPT ![p] = "fetch"]
    /\ runs' = [runs EXCEPT ![p] = @ + 1]
    /\ api_trades' = [api_trades EXCEPT ![p] = NoValue]
    /\ trades_df' = [trades_df EXCEPT ![p] = NoTable]
    /\ csv_file_path' = [csv_file_path EXCEPT ![p] = <<>>]
    /\ error' = [error EXCEPT ![p] = NoError]
    /\ calls' = [calls EXCEPT ![p] = <<>>]
    /\ response' = [response EXCEPT ![p] = NoResponse]
    /\ requests' = [requests EXCEPT ![p] = <<>>]
    /\ writes' = [writes EXCEPT ![p] = <<>>]
    /\ uploads' = [uploads EXCEPT ![p] = <<>>]
    /\ UNCHANGED <<world, persisted>>

\* main, line 124.
Fetch(p) ==
    /\ pc[p] = "fetch"
    /\ \E resp \in Responses :
          LET r == get_api_trades(API_URL, SYMBOL, resp)
          IN  /\ response' = [response EXCEPT ![p] = resp]
              /\ requests' = [requests EXCEPT ![p] = @ \o r.requests]
              /\ api_trades' = [api_trades EXCEPT ![p] = r.value]
              /\ error' = [error EXCEPT ![p] = r.error]
              /\ calls' = [calls EXCEPT ![p] = Append(@, Call(Order[1], r.error))]
              /\ pc' = [pc EXCEPT ![p] = AfterStep("build", r.error)]
    /\ UNCHANGED <<world, runs, env, trades_df, csv_file_path, writes, uploads, persisted>>

\* main, line 125.
Build(p) ==
    /\ pc[p] = "build"
    /\ LET r == generate_dataframe(api_trades[p])
       IN  /\ trades_df' = [trades_df EXCEPT ![p] = r.table]
           /\ error' = [error EXCEPT ![p] = r.error]
           /\ calls' = [calls EXCEPT ![p] = Append(@, Call(Order[2], r.error))]
           /\ pc' = [pc EXCEPT ![p] = AfterStep("persist", r.error)]
    /\ UNCHANGED <<world, runs, env, api_trades, csv_file_path, response, requests,
                   writes, uploads, persisted>>

\* main, line 126.
Persist(p) ==
    /\ pc[p] = "persist"
    /\ \E io \in IoOutcomes :
          LET r == dataframe_to_csv(trades_df[p], csv_path, dir_kind, today, platform, io)
          IN  /\ fs' = IF r.write = "write" THEN WriteFile(fs, r.attempted, r.content) ELSE fs
              /\ writes' = [writes EXCEPT ![p] =
                               IF r.attempted # <<>> THEN Append(@, r.attempted) ELSE @]
              /\ csv_file_path' = [csv_file_path EXCEPT ![p] = r.path]
              /\ error' = [error EXCEPT ![p] = r.error]
              /\ calls' = [calls EXCEPT ![p] = Append(@, Call(Order[3], r.error))]
              /\ persisted' =
                    IF r.error = NoError
                    THEN persisted \cup {[dir |-> csv_path, date |-> today, path |-> r.path]}
                    ELSE persisted
              /\ pc' = [pc EXCEPT ![p] = AfterStep("upload", r.error)]
    /\ UNCHANGED <<platform, csv_path, dir_kind, today, remote, runs, env, api_trades,
                   trades_df, response, requests, uploads>>

\* main, line 127.
Upload(p) ==
    /\ pc[p] = "upload"
    /\ \E net \in NetOutcomes :
          LET r == upload_csv_to_s3(csv_file_path[p], S3_FOLDER, env[p].key_id,
                                    env[p].secret, fs, net)
          IN  /\ remote' = IF r.put THEN PutObject(remote, r.key, r.body) ELSE remote
              /\ fs' = LocalAfterUpload(fs, csv_file_path[p])
              /\ uploads' = [uploads EXCEPT ![p] =
                                IF r.called
                                THEN Append(@, [key |-> r.key, body |-> r.body, ok |-> r.put])
                                ELSE @]
              /\ error' = [error EXCEPT ![p] = r.error]
              /\ calls' = [calls EXCEPT ![p] = Append(@, Call(Order[4], r.error))]
              /\ pc' = [pc EXCEPT ![p] = AfterStep("done", r.error)]
    /\ UNCHANGED <<platform, csv_path, dir_kind, today, runs, env, api_trades, trades_df,
                   csv_file_path, response, requests, writes, persisted>>

\* One process runs main again and again: runs never overlap.
Next ==
    \/ Tick
    \/ Start(Main)
    \/ Fetch(Main)
    \/ Build(Main)
    \/ Persist(Main)
    \/ Upload(Main)

Spec == Init /\ [][Next]_vars

\* Two instances of main started together with the same configuration, with
\* nothing between them but the file system and the bucket.  A function call
\* is one step: the instances interleave between calls.
InitConc ==
    /\ platform \in Platforms
    /\ csv_path \in CsvDirs
    /\ dir_kind \in DirKinds
    /\ today = 1
    /\ fs = <<>>
    /\ remote = <<>>
    /\ pc = ForAll("fetch")
    /\ runs = ForAll(1)
    /\ \E key_id \in Creds, secret \in Creds : env = ForAll(Env(key_id, secret))
    /\ api_trades = ForAll(NoValue)
    /\ trades_df = ForAll(NoTable)
    /\ csv_file_path = ForAll(<<>>)
    /\ error = ForAll(NoError)
    /\ calls = ForAll(<<>>)
    /\ response = ForAll(NoResponse)
    /\ requests = ForAll(<<>>)
    /\ writes = ForAll(<<>>)
    /\ uploads = ForAll(<<>>)
    /\ persisted = {}

NextConc ==
    \/ Tick
    \/ \E p \in Procs : Fetch(p)
    \/ \E p \in Procs : Build(p)
    \/ \E p \in Procs : Persist(p)
    \/ \E p \in Procs : Upload(p)

SpecConc == InitConc /\ [][NextConc]_vars

\* The table builder alone, on every JSON value the fetch can hand it.
InitBuild ==
    /\ platform = "nt"
    /\ csv_path = CSV_PATH
    /\ dir_kind = "dir"
    /\ today = 1
    /\ fs = <<>>
    /\ remote = <<>>
    /\ runs = [ForAll(0) EXCEPT ![Main] = 1]
    /\ env = ForAll(NoEnv)
    /\ trades_df = ForAll(NoTable)
    /\ csv_file_path = ForAll(<<>>)
    /\ error = ForAll(NoError)
    /\ writes = ForAll(<<>>)
    /\ uploads = ForAll(<<>>)
    /\ persisted = {}
    /\ pc = [ForAll("idle") EXCEPT ![Main] = "build"]
    /\ \E body \in JsonValues :
          LET resp == Response("ok", body)
              r == get_api_trades(API_URL, SYMBOL, resp)
          IN  /\ response = [ForAll(NoResponse) EXCEPT ![Main] = resp]
              /\ requests = [ForAll(<<>>) EXCEPT ![Main] = r.requests]
              /\ api_trades = [ForAll(NoValue) EXCEPT ![Main] = r.value]
              /\ calls = [ForAll(<<>>) EXCEPT ![Main] = <<Call(Order[1], r.error)>>]

NextBuild == Build(Main)

SpecBuild == InitBuild /\ [][NextBuild]_vars
\* ------------------------------------------------------------------ claims

Called(p, i) == Len(calls[p]) >= i
Failed(p, i) == Len(calls[p]) = i /\ ~calls[p][i].ok
ShapeMessages ==
    {"The 'trades' parameter must be a list.",
     "All elements of the 'trades' list must be dictionaries."}
\* os.path.basename: the part after the last separator of the platform.
Basename(os, path) ==
    SubSeq(path, LastIndexOf(path, IF os = "posix" THEN {"/"} ELSE Seps) + 1, Len(path))
StepOf(p, step) == pc[p] = step /\ pc'[p] # step

\* C1: in a run of main the functions called are a prefix of get_api_trades,
\* generate_dataframe, dataframe_to_csv, upload_csv_to_s3, each at most once;
\* every call but the last returned without raising; the run has failed
\* exactly when its last call raised; a file write is attempted only after
\* fetch and build succeeded, an upload only after the persist succeeded.
C1_StepsInOrderAbortOnFailure ==
    \A p \in Procs :
        /\ Len(calls[p]) <= Len(Order)
        /\ \A i \in 1..Len(calls[p]) : calls[p][i].step = Order[i]
        /\ \A i \in 1..(Len(calls[p]) - 1) : calls[p][i].ok
        /\ pc[p] = "failed" <=> (calls[p] # <<>> /\ ~calls[p][Len(calls[p])].ok)
        /\ requests[p] # <<>> => Called(p, 1)
        /\ writes[p] # <<>> => Called(p, 3) /\ calls[p][1].ok /\ calls[p][2].ok
        /\ uploads[p] # <<>> => Called(p, 4) /\ calls[p][3].ok

\* A run that stopped at a failed persist: nothing was uploaded.
C1_Witness ==
    /\ Failed(Main, 3)
    /\ pc[Main] = "failed"
    /\ uploads[Main] = <<>>
    /\ dir_kind = "dir"

\* C2: generate_dataframe raises the input-shape ValueError and yields no table
\* exactly when its input is not a list or holds an element that is not a
\* dict, whatever the element's position; a list of dicts, the empty list
\* included, never fails.
C2_ShapeErrorIffNotListOfDicts ==
    \A p \in Procs :
        Called(p, 2) /\ calls[p][1].ok =>
            LET in == api_trades[p]
                listOfDicts == in.t = "list" /\ \A i \in 1..Len(in.items) : in.items[i].t = "dict"
            IN  /\ listOfDicts <=> calls[p][2].ok
                /\ listOfDicts => trades_df[p].valid /\ error[p] = NoError
                /\ ~listOfDicts =>
                      /\ trades_df[p] = NoTable
                      /\ error[p].cls = "ValueError"
                      /\ error[p].msg \in ShapeMessages
                      /\ pc[p] = "failed"

\* A list whose first element is a dict and whose last is not was refused.
C2_Witness ==
    /\ Failed(Main, 2)
    /\ api_trades[Main].t = "list"
    /\ Len(api_trades[Main].items) = 2
    /\ api_trades[Main].items[1].t = "dict"
    /\ api_trades[Main].items[2].t # "dict"

\* First place (record, position in the record) where key k occurs.
FirstSeen(items, k) ==
    LET i == CHOOSE i \in 1..Len(items) :
                 /\ \E n \in 1..Len(items[i].pairs) : items[i].pairs[n].k = k
                 /\ \A j \in 1..(i - 1) : \A n \in 1..Len(items[j].pairs) : items[j].pairs[n].k # k
        n == CHOOSE n \in 1..Len(items[i].pairs) : items[i].pairs[n].k = k
    IN  <<i, n>>
Before(a, b) == a[1] < b[1] \/ (a[1] = b[1] /\ a[2] < b[2])

\* C3: for a list of dicts the table has one row per record, in the input's
\* order; its columns are exactly the keys of all records, each once, in the
\* order the keys are first seen; a cell holds the record's value for the
\* column, and NaN where the record lacks the key.
C3_TableRowsColumnsCells ==
    \A p \in Procs :
        Called(p, 2) /\ calls[p][2].ok =>
            LET items == api_trades[p].items
                df == trades_df[p]
                keysOf(i) == {items[i].pairs[n].k : n \in 1..Len(items[i].pairs)}
            IN  /\ Len(df.rows) = Len(items)
                /\ Range(df.columns) = UNION {keysOf(i) : i \in 1..Len(items)}
                /\ IsInjective(df.columns)
                /\ \A a, b \in 1..Len(df.columns) :
                      a < b => Before(FirstSeen(items, df.columns[a]),
                                      FirstSeen(items, df.columns[b]))
                /\ \A i \in 1..Len(items) :
                      /\ Len(df.rows[i]) = Len(df.columns)
                      /\ \A c \in 1..Len(df.columns) :
                            IF df.columns[c] \in keysOf(i)
                            THEN \E n \in 1..Len(items[i].pairs) :
                                     /\ items[i].pairs[n].k = df.columns[c]
                                     /\ items[i].pairs[n].v = df.rows[i][c]
                            ELSE df.rows[i][c] = NaN

\* Two records with different key sets: two columns, a NaN in each row.
C3_Witness ==
    /\ Called(Main, 2)
    /\ calls[Main][2].ok
    /\ Len(trades_df[Main].rows) = 2
    /\ trades_df[Main].columns = <<"qty", "price">>
    /\ trades_df[Main].rows[1][2] = NaN
    /\ trades_df[Main].rows[2][1] = NaN

\* C4: every upload goes to the key <folder>/<basename(file_path)>: the
\* folder, one "/", and the final component of the persisted path, which for
\* folder "trades" is trades/api_trades_<date>.csv -- on every platform.
C4_KeyIsFolderSlashBasename ==
    \A p \in Procs : \A i \in 1..Len(uploads[p]) :
        /\ uploads[p][i].key = <<S3_FOLDER, "/">> \o Basename(platform, csv_file_path[p])
        /\ \E d \in 1..MaxDate : uploads[p][i].key = <<"trades", "/", "api_trades_", DateStr(d), ".csv">>

\* C5: whenever upload_csv_to_s3 raises, what reaches main is the wrapping
\* ValueError of the upload, be it the client construction or upload_file
\* that failed.
C5_UploadFailuresAreWrapped ==
    \A p \in Procs :
        Failed(p, 4) =>
            /\ error[p].cls = "ValueError"
            /\ error[p].msg = "An error occurred while uploading the file"

\* C6: a dataframe_to_csv call on a path that is missing or not a directory
\* raises the not-a-valid-directory ValueError, returns no path, attempts no
\* write and leaves every file as it was.
C6_InvalidDirectoryWritesNothing ==
    [][\A p \in Procs :
          StepOf(p, "persist") /\ dir_kind # "dir" =>
              /\ pc'[p] = "failed"
              /\ error'[p] = Err("ValueError", "is not a valid directory", "")
              /\ csv_file_path'[p] = <<>>
              /\ writes'[p] = <<>>
              /\ fs' = fs]_vars

\* A run refused by the directory check, the path being a file.
C6_Witness ==
    /\ Failed(Main, 3)
    /\ dir_kind = "file"
    /\ error[Main].msg = "is not a valid directory"
    /\ csv_file_path[Main] = <<>>

\* C7: every path dataframe_to_csv returns is the directory followed by
\* api_trades_<date>.csv, so calls with one directory on one date return one
\* path; from a successful call until the next run the file holds exactly the
\* CSV of that call's table; after a successful upload the object at the key
\* holds that same CSV.
C7_SameDatePathOverwritten ==
    /\ \A a \in persisted :
          /\ SubSeq(a.path, 1, Len(a.dir)) = a.dir
          /\ SubSeq(a.path, Len(a.path) - 2, Len(a.path))
                = <<"api_trades_", DateStr(a.date), ".csv">>
    /\ \A a, b \in persisted : a.dir = b.dir /\ a.date = b.date => a.path = b.path
    /\ \A p \in Procs :
          /\ Called(p, 3) /\ calls[p][3].ok =>
                /\ csv_file_path[p] \in DOMAIN fs
                /\ fs[csv_file_path[p]] = ToCsv(trades_df[p])
          /\ pc[p] = "done" =>
                /\ uploads[p][1].key \in DOMAIN remote
                /\ remote[uploads[p][1].key] = ToCsv(trades_df[p])

\* The second run of a date has written its table over the first run's: the
\* bucket still holds the first run's upload of that path, and it differs.
C7_Witness ==
    /\ runs[Main] = 2
    /\ today = 1
    /\ pc[Main] = "upload"
    /\ ObjectKey(S3_FOLDER, csv_file_path[Main]) \in DOMAIN remote
    /\ remote[ObjectKey(S3_FOLDER, csv_file_path[Main])] # fs[csv_file_path[Main]]
    /\ fs[csv_file_path[Main]] = ToCsv(trades_df[Main])

\* C8: a get_api_trades call issues one GET, to <base_url>/<symbol>/trades; on
\* an HTTP error status or a network failure it raises the ValueError of the
\* API request with that failure as its cause, returns nothing and the run
\* ends; on success it returns the decoded body as it is, list or not.
C8_OneGetWrappedFailureBodyUnchanged ==
    \A p \in Procs :
        /\ ~Called(p, 1) => requests[p] = <<>>
        /\ Called(p, 1) =>
              /\ requests[p] = <<(<<API_URL, "/", SYMBOL, "/", "trades">>)>>
              /\ response[p].outcome \in HttpFailures =>
                    /\ ~calls[p][1].ok
                    /\ error[p] = Err("ValueError", "Error during API request",
                                      response[p].outcome)
                    /\ api_trades[p] = NoValue
                    /\ pc[p] = "failed"
              /\ response[p].outcome = "ok" =>
                    /\ calls[p][1].ok
                    /\ api_trades[p] = response[p].body

\* The connection failed: one request was made and the run is over.
C8_Witness ==
    /\ Failed(Main, 1)
    /\ response[Main].outcome = "ConnectionError"
    /\ Len(requests[Main]) = 1

\* C9: once upload_csv_to_s3 was called, failed or not, the file the persister
\* wrote is on disk with the content it wrote; only a dataframe_to_csv call
\* changes a local file.
C9_LocalFileKeptAfterUpload ==
    /\ [](\A p \in Procs :
             Called(p, 4) =>
                 /\ csv_file_path[p] \in DOMAIN fs
                 /\ fs[csv_file_path[p]] = ToCsv(trades_df[p]))
    /\ [][fs' # fs => \E p \in Procs : StepOf(p, "persist")]_vars

\* The upload failed on the network after a successful persist.
C9_Witness ==
    /\ Failed(Main, 4)
    /\ pc[Main] = "failed"
    /\ Len(uploads[Main]) = 1
    /\ ~uploads[Main][1].ok
    /\ fs[csv_file_path[Main]] = ToCsv(trades_df[Main])

\* C10: two instances are not kept apart: persists of one date return one
\* path, whichever instance made them; a successful upload replaces the object
\* at the key of the instance's path with what the file at that path holds at
\* that moment, whoever wrote it.
C10_InstancesShareFileAndKey ==
    /\ [](\A a, b \in persisted : a.date = b.date => a.path = b.path)
    /\ [][\A p \in Procs :
             StepOf(p, "upload") /\ pc'[p] = "done" =>
                 /\ csv_file_path[p] \in DOMAIN fs
                 /\ remote'[uploads'[p][1].key] = fs[csv_file_path[p]]]_vars

\* An instance has uploaded the other instance's table, not its own, and the
\* other has not uploaded.
C10_Witness ==
    \E p, q \in Procs :
        /\ p # q
        /\ pc[p] = "done"
        /\ pc[q] = "upload"
        /\ csv_file_path[p] = csv_file_path[q]
        /\ uploads[p][1].body = ToCsv(trades_df[q])
        /\ uploads[p][1].body # ToCsv(trades_df[p])
        /\ remote[uploads[p][1].key] = ToCsv(trades_df[q])
        /\ fs[csv_file_path[p]] = ToCsv(trades_df[q])
====
